---- MODULE Spec2Model ----
(***************************************************************************)
(* Calendly -> Notion synchronisation (import_events.py, get-events.py).   *)
(*                                                                         *)
(* One run of a script is a sequence of blocking HTTP requests.  Every     *)
(* action below is one request together with the straight-line code that   *)
(* surrounds it; the answer of the remote service (success, transport      *)
(* error, HTTP error status, and the body) is the input of the action.     *)
(***************************************************************************)
EXTENDS Integers, Sequences, FiniteSets, TLC

VARIABLES
    calendar,     \* Calendly: the active scheduled events of the organisation
    workspace,    \* Notion: the users of the workspace
    db,           \* Notion: the pages of the database, in creation order
    prog,         \* which script is running
    pc,           \* position of the running script
    exc,          \* the uncaught exception that ended the run, if any
    userList,     \* main: userList (createNotionDatabasePages: userDict)
    eventData,    \* getCalendlyEvents: eventsInfo, then main: eventData
    response,     \* the last answer of Calendly: response of getCalendlyEvents
                  \* and of getEventInviteeTicketNumber
    n,            \* index of the event the current for-loop is at
    userID,       \* createNotionDatabasePages: userID (survives iterations)
    myjson,       \* createNotionDatabasePages: myjson
    pageID,       \* doesEventNeedUpdating: pageID
    newStartTime, \* doesEventNeedUpdating: startTime after fromisoformat
    log,          \* the requests the current run has sent to Notion, in order
    prevClean     \* the previous run was import_events, it fetched the events of
                  \* the calendar, and every request it sent to Notion succeeded

vars == <<calendar, workspace, db, prog, pc, exc, userList, eventData, response,
          n, userID, myjson, pageID, newStartTime, log, prevClean>>

-----------------------------------------------------------------------------
(* Bounds of the model *)

MaxEvents == 2     \* events returned by one event-list request

(* Values the remote services hold *)

IDOrder == <<"e1", "e2">>
EventIDs == {IDOrder[i] : i \in 1..Len(IDOrder)}
Hours == {1, 2}                      \* wall-clock readings
LinkPrefix == "https://tickets/"     \* LINK_PREFIX

-----------------------------------------------------------------------------
(* Python values *)

None == [t |-> "NoneType"]
Str(chunks) == [t |-> "str", s |-> chunks]
Unbound == "<unbound>"              \* a local variable that was never assigned

\* f"{v}": str() of a value
Format(v) == IF v = None THEN <<"None">> ELSE v.s

-----------------------------------------------------------------------------
(* Date/time texts: wall-clock reading, date/time separator, offset suffix *)

TimeText(w, sep, tz) == [wall |-> w, sep |-> sep, tz |-> tz]

\* startTime[:-1] + "+00:00"
ZuluToOffset(s) ==
    IF s.tz = "Z" THEN [s EXCEPT !.tz = "+00:00"]
    ELSE [s EXCEPT !.tz = "malformed"]

IsIsoFormat(s) == s.tz \in {"Z", "+00:00", "+01:00", ""}

\* datetime.datetime.fromisoformat: an aware or a naive datetime
fromisoformat(s) ==
    [wall |-> s.wall,
     aware |-> s.tz # "",
     utcoffset |-> IF s.tz = "+01:00" THEN 1 ELSE 0]

\* variant: the readings are compared, the offsets ignored
DateTimeEqReadings(a, b) == a.wall = b.wall

\* datetime.__eq__: aware values compare as instants, naive ones as readings,
\* an aware and a naive value are never equal
DateTimeEq(a, b) ==
    IF ~a.aware /\ ~b.aware THEN a.wall = b.wall
    ELSE IF ~a.aware \/ ~b.aware THEN FALSE
    ELSE a.wall - a.utcoffset = b.wall - b.utcoffset

\* variant: the offset is lost when the time is written out
DateTimeStrNoOffset(d) == TimeText(d.wall, " ", "")

\* str(datetime): blank separator, "+HH:MM" suffix when aware
DateTimeStr(d) ==
    TimeText(d.wall, " ",
             IF ~d.aware THEN ""
             ELSE IF d.utcoffset = 0 THEN "+00:00" ELSE "+01:00")

-----------------------------------------------------------------------------
(* Calendly *)

\* the host of the i-th Event ID
HostOrder == <<"h1@x", "h2@x">>

\* scheduled events: each Event ID has its host, and may start at any hour
CalendarEvents ==
    {[external_id |-> IDOrder[i],
      start_time |-> TimeText(h, "T", "Z"),
      user_email |-> HostOrder[i]] : i \in 1..Len(IDOrder), h \in Hours}

Calendars == UNION {[1..k -> CalendarEvents] : k \in 0..MaxEvents}

QA(q, a) == [question |-> q, answer |-> Str(<<a>>)]

\* bodies of the invitee-list answer: the questions_and_answers of each invitee
InviteeLists ==
    { <<>>,
      << <<QA("Email", "T0")>>, <<QA("ticket number", "T0")>> >>,
      << <<QA("Email", "T0")>>,
         <<QA("Email", "T0"), QA("Ticket Number", "T1"), QA("Ticket Number", "T2")>>,
         <<QA("Ticket Number", "T3")>> >> }

NotFound == [found |-> FALSE, answer |-> None]

\* the inner loop of getEventInviteeTicketNumber
RECURSIVE ScanQuestions(_)
ScanQuestions(qas) ==
    IF qas = <<>> THEN NotFound
    ELSE IF Head(qas).question = "Ticket Number"
         THEN [found |-> TRUE, answer |-> Head(qas).answer]
         ELSE ScanQuestions(Tail(qas))

\* the outer loop of getEventInviteeTicketNumber
RECURSIVE ScanInvitees(_)
ScanInvitees(invitees) ==
    IF invitees = <<>> THEN NotFound
    ELSE LET r == ScanQuestions(Head(invitees))
         IN IF r.found THEN r ELSE ScanInvitees(Tail(invitees))

\* what getEventInviteeTicketNumber returns for an answer of the invitee request
TicketNumber(status, invitees) ==
    IF status = "ok" THEN ScanInvitees(invitees).answer ELSE None

\* event_details of getCalendlyEvents, in each of the two scripts
EventDetails(p, event, ticket) ==
    IF p = "import_events"
    THEN [id |-> event.external_id,
          startTime |-> event.start_time,
          email |-> event.user_email,
          ticketLink |-> Str(<<LinkPrefix>> \o Format(ticket))]
    ELSE [external_id |-> event.external_id,
          start_time |-> event.start_time,
          email |-> event.user_email,
          ticketNumber |-> ticket]

-----------------------------------------------------------------------------
(* Notion *)

BotUser == [id |-> "bot"]
PersonUser(i, e) == [id |-> i, person |-> [email |-> e]]

Workspaces ==
    { <<BotUser>>,
      <<BotUser, PersonUser("u1", "h1@x")>>,
      <<BotUser, PersonUser("u1", "h1@x"), PersonUser("u2", "h2@x")>> }

EmptyDict == <<>>

Put(d, k, v) == [x \in DOMAIN d \cup {k} |-> IF x = k THEN v ELSE d[x]]

\* the loop of getUsers
RECURSIVE BuildUserDict(_, _)
BuildUserDict(users, userDict) ==
    IF users = <<>> THEN userDict
    ELSE LET user == Head(users)
         IN IF "person" \notin DOMAIN user
            THEN BuildUserDict(Tail(users), userDict)
            ELSE BuildUserDict(Tail(users),
                               Put(userDict, user.person.email, user.id))

PEventID == "Event ID"
PSummary == "Summary"
PPersons == "Person(s)"
PTicket == "Ticket URL"
PDate == "Date & Time (Local)"
PShadow == "Shadow Friendly?"
PStatus == "Status"

\* dates a page may hold before the first run: a time with an offset other
\* than the one the script writes, or a date alone
StoredDates == { TimeText(2, "T", "+01:00"), TimeText(1, "", "") }

\* a page somebody has worked on since it was created
OldPage(eventID, date) ==
    PEventID :> eventID @@ PSummary :> "Call notes" @@ PPersons :> <<"u9">> @@
    PTicket :> Str(<<LinkPrefix, "T7">>) @@ PDate :> date @@
    PShadow :> "Yes" @@ PStatus :> "Completed"

\* databases with at most one page per Event ID; the page's id is its position
Databases ==
    LET choice == [EventIDs -> StoredDates \cup {None}]
        RECURSIVE pages(_, _)
        pages(c, i) ==
            IF i > Len(IDOrder) THEN <<>>
            ELSE IF c[IDOrder[i]] = None THEN pages(c, i + 1)
            ELSE <<OldPage(IDOrder[i], c[IDOrder[i]])>> \o pages(c, i + 1)
        number(ps) == [i \in 1..Len(ps) |-> [id |-> i, properties |-> ps[i]]]
    IN {number(pages(c, 1)) : c \in choice}

\* POST /databases/{db}/query with the filter "Event ID" equals eventID
QueryResults(database, eventID) ==
    SelectSeq(database, LAMBDA page : page.properties[PEventID] = eventID)

\* variant: another key of the answer is read
isEventPresentInDBHasMore(database, eventID) == FALSE

\* bool(jsonOutput["results"])
isEventPresentInDB(database, eventID) == QueryResults(database, eventID) # <<>>

\* POST /pages: a property the request leaves out is empty on the new page
CreatePage(database, json) ==
    Append(database,
           [id |-> Len(database) + 1,
            properties |-> json.properties @@ (PPersons :> <<>>)])

\* PATCH /pages/{id}: the properties of the request replace those of the page
PatchPage(database, id, json) ==
    [database EXCEPT ![id].properties = json.properties @@ @]

-----------------------------------------------------------------------------
(* The scripts *)

Programs == {"import_events", "get-events"}
Statuses == {"ok", "transport", "http"}

\* a request a run has sent to Notion, for the event the loop was at, and how
\* it ended
Request(by, op, ev, res, json) ==
    [by |-> by, op |-> op, ev |-> ev, res |-> res, json |-> json]

NoResponse == [status |-> "none", collection |-> <<>>]
NoDateTime == [wall |-> 0, aware |-> FALSE, utcoffset |-> 0]

Init ==
    /\ calendar \in Calendars
    /\ workspace \in Workspaces
    /\ db \in Databases
    /\ prog = "import_events"
    /\ pc = "idle"
    /\ exc = "none"
    /\ userList = EmptyDict
    /\ eventData = <<>>
    /\ response = NoResponse
    /\ n = 0
    /\ userID = Unbound
    /\ myjson = None
    /\ pageID = 0
    /\ newStartTime = NoDateTime
    /\ log = <<>>
    /\ prevClean = FALSE

\* an uncaught exception ends the run
Raise(e) ==
    /\ pc' = "raised"
    /\ exc' = e

\* the exception a failed request ends in: requests.get/post/patch raise on a
\* transport error; an error status shows when the code looks at the answer
\* (raise_for_status, or a key the error body does not have)
Exception(res, onStatus) == IF res = "transport" THEN "ConnectionError" ELSE onStatus

\* variant: the request of getUsers wrapped in a try that swallows the failure
getUsersRaisesCaught(res) == FALSE

\* getUsers has no try and reads jsonOutput["results"]
getUsersRaises(res) == res # "ok"

\* variant: only the HTTPError of raise_for_status is caught
getCalendlyEventsRaisesTransport(res) == res = "transport"

\* getCalendlyEvents: request and raise_for_status sit in try/except RequestException
getCalendlyEventsRaises(res) == FALSE

\* getEventInviteeTicketNumber: the same try/except RequestException
getEventInviteeTicketNumberRaises(res) == FALSE

\* isEventPresentInDB has no try and reads jsonOutput["results"]
isEventPresentInDBRaises(res) == res # "ok"

\* doesEventNeedUpdating has no try and calls raise_for_status
doesEventNeedUpdatingRaises(res) == res # "ok"

\* variant: raise_for_status called on the answer of the PATCH
updateStartTimeRaisesForStatus(res) == res # "ok"

\* updateStartTime has no try and only prints the answer
updateStartTimeRaises(res) == res = "transport"

\* a run starts: main() of either script, up to its first request
main(p) ==
    /\ pc \in {"idle", "done", "raised"}
    /\ prevClean' = (/\ pc # "idle"
                     /\ prog = "import_events"
                     /\ Len(eventData) = Len(calendar)
                     /\ \A i \in 1..Len(log) : log[i].res = "ok")
    /\ prog' = p
    /\ pc' = IF p = "import_events" THEN "getUsers" ELSE "getCalendlyEvents"
    /\ exc' = "none"
    /\ userList' = EmptyDict
    /\ eventData' = <<>>
    /\ response' = NoResponse
    /\ n' = 0
    /\ userID' = Unbound
    /\ myjson' = None
    /\ pageID' = 0
    /\ newStartTime' = NoDateTime
    /\ log' = <<>>
    /\ UNCHANGED <<calendar, workspace, db>>

\* getUsers: GET /users outside any try; an error body has no "results"
getUsers(res) ==
    /\ pc = "getUsers"
    /\ log' = Append(log, Request("getUsers", "GET /users", 0, res, None))
    /\ IF getUsersRaises(res)
       THEN /\ Raise(Exception(res, "KeyError"))
            /\ userList' = userList
       ELSE /\ userList' = BuildUserDict(workspace, EmptyDict)
            /\ pc' = "getCalendlyEvents"
            /\ exc' = exc
    /\ UNCHANGED <<calendar, workspace, db, prog, eventData, response, n, userID,
                   myjson, pageID, newStartTime, prevClean>>

\* getCalendlyEvents up to its loop: GET /scheduled_events inside the try.
\* With nothing to loop over the function returns [] and main runs to its end.
getCalendlyEvents(res) ==
    /\ pc = "getCalendlyEvents"
    /\ response' = [status |-> res,
                    collection |-> IF res = "ok" THEN calendar ELSE <<>>]
    /\ eventData' = <<>>
    /\ IF getCalendlyEventsRaises(res)
       THEN /\ Raise(Exception(res, "HTTPError"))
            /\ n' = n
       ELSE /\ exc' = exc
            /\ IF res = "ok" /\ calendar # <<>>
               THEN /\ pc' = "getEventInviteeTicketNumber"
                    /\ n' = 1
               ELSE /\ pc' = "done"
                    /\ n' = n
    /\ UNCHANGED <<calendar, workspace, db, prog, userList, userID, myjson,
                   pageID, newStartTime, log, prevClean>>

\* one iteration of the loop of getCalendlyEvents: the invitee request of
\* getEventInviteeTicketNumber and the event_details appended
getEventInviteeTicketNumber(res, invitees) ==
    /\ pc = "getEventInviteeTicketNumber"
    /\ res # "ok" => invitees = <<>>
    /\ response' = [status |-> res, collection |-> invitees]
    /\ IF getEventInviteeTicketNumberRaises(res)
       THEN /\ Raise(Exception(res, "HTTPError"))
            /\ UNCHANGED <<eventData, n>>
       ELSE /\ exc' = exc
            /\ eventData' = Append(eventData,
                                   EventDetails(prog, calendar[n],
                                                TicketNumber(res, invitees)))
            /\ n' = n + 1
            /\ pc' = IF n = Len(calendar) THEN "returnEventsInfo" ELSE pc
    /\ UNCHANGED <<calendar, workspace, db, prog, userList, userID, myjson,
                   pageID, newStartTime, log, prevClean>>

\* getCalendlyEvents returns a non-empty eventsInfo to main
returnEventsInfo ==
    /\ pc = "returnEventsInfo"
    /\ response' = NoResponse
    /\ IF prog = "import_events"
       THEN /\ pc' = "createNotionDatabasePages"
            /\ n' = 1
       ELSE /\ pc' = "done"
            /\ n' = 0
    /\ UNCHANGED <<calendar, workspace, db, prog, exc, userList, eventData,
                   userID, myjson, pageID, newStartTime, log, prevClean>>

\* myjson as built for event, before the Person(s) key is popped
Payload(event, uid) ==
    [parent |-> [type |-> "database_id"],
     properties |->
        PEventID :> event.id @@ PSummary :> "Please Update" @@
        PPersons :> <<uid>> @@ PTicket :> event.ticketLink @@
        PDate :> ZuluToOffset(event.startTime) @@
        PShadow :> "Unknown" @@ PStatus :> "Upcoming Call"]

\* variant: the key is popped from myjson itself, where it is not a key
PopPersonsOuter(json) == json

\* myjson[key].pop('Person(s)', None) for every key of myjson
PopPersons(json) ==
    [key \in DOMAIN json |->
        [k \in DOMAIN json[key] \ {PPersons} |-> json[key][k]]]

\* the for-loop moves to the next event, or createNotionDatabasePages returns
NextEvent ==
    /\ IF n = Len(eventData)
       THEN pc' = "done" /\ n' = n
       ELSE pc' = "createNotionDatabasePages" /\ n' = n + 1
    /\ myjson' = None
    /\ pageID' = 0
    /\ newStartTime' = NoDateTime

\* top of the loop body of createNotionDatabasePages, down to the existence
\* check: the user lookup, myjson, and the query of isEventPresentInDB
createNotionDatabasePages(res) ==
    /\ pc = "createNotionDatabasePages"
    /\ LET event == eventData[n]
           emptyPerson == event.email \notin DOMAIN userList
           uid == IF emptyPerson THEN userID ELSE userList[event.email]
           json == Payload(event, uid)
       IN IF uid = Unbound
          THEN /\ Raise("UnboundLocalError")
               /\ UNCHANGED <<userID, myjson, log>>
          ELSE /\ userID' = uid
               /\ myjson' = IF emptyPerson THEN PopPersons(json) ELSE json
               /\ log' = Append(log, Request("isEventPresentInDB",
                                             "POST /databases/{db}/query",
                                             n, res, None))
               /\ IF isEventPresentInDBRaises(res)
                  THEN Raise(Exception(res, "KeyError"))
                  ELSE /\ pc' = IF isEventPresentInDB(db, event.id)
                                 THEN "doesEventNeedUpdating"
                                 ELSE "postPage"
                       /\ exc' = exc
    /\ UNCHANGED <<calendar, workspace, db, prog, userList, eventData, response,
                   n, pageID, newStartTime, prevClean>>

\* the create branch: POST /pages inside the try; the except branch returns
postPage(res) ==
    /\ pc = "postPage"
    /\ log' = Append(log, Request("createNotionDatabasePages", "POST /pages",
                                  n, res, myjson))
    /\ IF res = "ok"
       THEN /\ db' = CreatePage(db, myjson)
            /\ NextEvent
       ELSE /\ db' = db
            /\ pc' = "done"
            /\ UNCHANGED <<n, myjson, pageID, newStartTime>>
    /\ UNCHANGED <<calendar, workspace, prog, exc, userList, eventData, response,
                   userID, prevClean>>

\* doesEventNeedUpdating: the second query (with raise_for_status) and the
\* comparison of the parsed times
doesEventNeedUpdating(res) ==
    /\ pc = "doesEventNeedUpdating"
    /\ log' = Append(log, Request("doesEventNeedUpdating",
                                  "POST /databases/{db}/query", n, res, None))
    /\ LET startTime == ZuluToOffset(eventData[n].startTime)
           results == QueryResults(db, eventData[n].id)
           currentTime == results[1].properties[PDate]
       IN CASE doesEventNeedUpdatingRaises(res) ->
                 /\ Raise(Exception(res, "HTTPError"))
                 /\ UNCHANGED <<n, myjson, pageID, newStartTime>>
            [] /\ ~doesEventNeedUpdatingRaises(res)
               /\ ~(IsIsoFormat(startTime) /\ IsIsoFormat(currentTime)) ->
                 /\ Raise("ValueError")
                 /\ pageID' = results[1].id
                 /\ UNCHANGED <<n, myjson, newStartTime>>
            [] OTHER ->
                 /\ exc' = exc
                 /\ IF DateTimeEq(fromisoformat(startTime),
                                  fromisoformat(currentTime))
                    THEN NextEvent
                    ELSE /\ pc' = "updateStartTime"
                         /\ pageID' = results[1].id
                         /\ newStartTime' = fromisoformat(startTime)
                         /\ UNCHANGED <<n, myjson>>
    /\ UNCHANGED <<calendar, workspace, db, prog, userList, eventData, response,
                   userID, prevClean>>

\* variant: the select properties are sent along with the date
PatchBodyWithStatus(start) ==
    [properties |-> PDate :> DateTimeStr(start) @@ PStatus :> "Upcoming Call"]

\* the body of the PATCH request of updateStartTime
PatchBody(start) == [properties |-> PDate :> DateTimeStr(start)]

\* updateStartTime: PATCH /pages/{id} outside any try, its status not looked at
updateStartTime(res) ==
    /\ pc = "updateStartTime"
    /\ log' = Append(log, Request("updateStartTime", "PATCH /pages/{id}",
                                  n, res, PatchBody(newStartTime)))
    /\ db' = IF res = "ok" THEN PatchPage(db, pageID, PatchBody(newStartTime))
             ELSE db
    /\ IF updateStartTimeRaises(res)
       THEN /\ Raise(Exception(res, "HTTPError"))
            /\ UNCHANGED <<n, myjson, pageID, newStartTime>>
       ELSE /\ exc' = exc
            /\ NextEvent
    /\ UNCHANGED <<calendar, workspace, prog, userList, eventData, response,
                   userID, prevClean>>

Next ==
    \/ \E p \in Programs : main(p)
    \/ \E res \in Statuses : getUsers(res)
    \/ \E res \in Statuses : getCalendlyEvents(res)
    \/ \E res \in Statuses, invitees \in InviteeLists :
          getEventInviteeTicketNumber(res, invitees)
    \/ returnEventsInfo
    \/ \E res \in Statuses : createNotionDatabasePages(res)
    \/ \E res \in Statuses : postPage(res)
    \/ \E res \in Statuses : doesEventNeedUpdating(res)
    \/ \E res \in Statuses : updateStartTime(res)

Spec == Init /\ [][Next]_vars

-----------------------------------------------------------------------------
(* Vocabulary of the properties *)

Last(s) == s[Len(s)]

\* the step just taken issued one more request
Issued == Len(log') = Len(log) + 1

IsCreate(r) == r.op = "POST /pages"
IsPatch(r) == r.op = "PATCH /pages/{id}"
IsWrite(r) == IsCreate(r) \/ IsPatch(r)

PagesOf(eventID) == {i \in 1..Len(db) : db[i].properties[PEventID] = eventID}

\* the date the database holds for an Event ID (of its first page)
StoredDate(eventID) ==
    db[CHOOSE i \in PagesOf(eventID) : \A j \in PagesOf(eventID) : i <= j].properties[PDate]

\* the instant a date/time text denotes, when it names an offset
HasOffset(s) == s.tz \in {"Z", "+00:00", "+01:00"}
Instant(s) == IF s.tz = "+01:00" THEN s.wall - 1 ELSE s.wall
SameInstant(a, b) == HasOffset(a) /\ HasOffset(b) /\ Instant(a) = Instant(b)

-----------------------------------------------------------------------------
(* C1 *)

AtMostOnePagePerEventID ==
    \A i, j \in 1..Len(db) :
        db[i].properties[PEventID] = db[j].properties[PEventID] => i = j

CreateOnlyWhenAbsent ==
    (Issued /\ IsCreate(Last(log'))) =>
        PagesOf(Last(log').json.properties[PEventID]) = {}

\* C1: starting from a database with at most one page per Event ID, after any
\* number of runs the database still holds at most one page per Event ID, and
\* no run issues POST /pages for an Event ID the database already holds.
C1_OnePagePerEventID ==
    [] AtMostOnePagePerEventID /\ [][CreateOnlyWhenAbsent]_vars

\* a run is comparing times for an event whose page a run created
C1_Witness ==
    /\ pc = "doesEventNeedUpdating"
    /\ \E i \in PagesOf(eventData[n].id) : db[i].properties[PSummary] = "Please Update"

-----------------------------------------------------------------------------
(* C2 *)

\* C2: at every event whose host email is not in the mapping and whose Event
\* ID is not in the database, the step from the top of the loop either ends in
\* a failed existence query or reaches the create request with a payload that
\* has no Person(s) property; the run does not fail otherwise.
C2_AbsentHostStillCreates ==
    [][ (/\ pc = "createNotionDatabasePages"
         /\ eventData[n].email \notin DOMAIN userList
         /\ PagesOf(eventData[n].id) = {})
        => \/ Issued /\ Last(log').res # "ok"
           \/ /\ pc' = "postPage"
              /\ PPersons \notin DOMAIN myjson'.properties ]_vars

-----------------------------------------------------------------------------
(* C3 *)

\* C3: when the create request of an event fails and later events remain, the
\* loop goes on to the next event.
C3_LoopContinuesAfterFailedCreate ==
    [][ (/\ pc = "postPage"
         /\ Issued /\ Last(log').res # "ok"
         /\ n < Len(eventData))
        => (pc' = "createNotionDatabasePages" /\ n' = n + 1) ]_vars

-----------------------------------------------------------------------------
(* C4 *)

NoTicketQuestion(invitees) ==
    \A i \in 1..Len(invitees) : \A j \in 1..Len(invitees[i]) :
        invitees[i][j].question # "Ticket Number"

TicketField(details) ==
    IF "ticketLink" \in DOMAIN details THEN details.ticketLink
    ELSE details.ticketNumber

\* C4: after the invitee request of an event failed, or answered with no
\* question equal to "Ticket Number", the event is the last of eventsInfo and
\* its ticket field is None.
C4_NoTicketIsAbsent ==
    (/\ eventData # <<>>
     /\ response # NoResponse
     /\ response.status # "ok" \/ NoTicketQuestion(response.collection))
    => /\ Len(eventData) = n - 1
       /\ TicketField(Last(eventData)) = None

-----------------------------------------------------------------------------
(* C5 *)

\* C5: a step that issues a create or a patch request is never taken at an
\* event whose Event ID is in the database with a stored date/time that
\* denotes the same instant as the fetched start time.
C5_SameInstantNoWrite ==
    [][ (Issued /\ IsWrite(Last(log')))
        => ~(/\ PagesOf(eventData[n].id) # {}
             /\ SameInstant(StoredDate(eventData[n].id), eventData[n].startTime)) ]_vars

\* the comparison of an event found a stored time of another offset notation
\* equal, and the loop went on
C5_Witness ==
    /\ log # <<>>
    /\ Last(log).by = "doesEventNeedUpdating"
    /\ Last(log).res = "ok"
    /\ pc \in {"createNotionDatabasePages", "done"}
    /\ StoredDate(eventData[Last(log).ev].id).tz = "+01:00"
    /\ SameInstant(StoredDate(eventData[Last(log).ev].id),
                   eventData[Last(log).ev].startTime)

-----------------------------------------------------------------------------
(* C6 *)

\* the comparison that answers with a differing stored time leads to the patch
DifferingIsPatched ==
    (/\ pc = "doesEventNeedUpdating"
     /\ Issued /\ Last(log').res = "ok"
     /\ ~SameInstant(StoredDate(eventData[n].id), eventData[n].startTime))
    => pc' = "updateStartTime"

\* the patch is one request, for the page of the event, with the date alone
PatchSendsDateOnly ==
    pc = "updateStartTime"
    => /\ Issued /\ IsPatch(Last(log'))
       /\ Last(log').ev = n
       /\ DOMAIN Last(log').json.properties = {PDate}
       /\ pc' # "updateStartTime"
       /\ Last(log').res = "ok"
            => SameInstant(db'[pageID].properties[PDate], eventData[n].startTime)

\* pages are never removed; a page changes only by a patch, and only its date
OnlyDateChanges ==
    /\ Len(db') >= Len(db)
    /\ \A i \in 1..Len(db) :
          /\ db'[i].id = db[i].id
          /\ \A k \in DOMAIN db[i].properties \ {PDate} :
                db'[i].properties[k] = db[i].properties[k]
          /\ DOMAIN db'[i].properties = DOMAIN db[i].properties
          /\ db'[i] # db[i] => (pc = "updateStartTime" /\ i = pageID
                                /\ db[i].properties[PEventID] = eventData[n].id)

AtMostOnePatchPerEvent ==
    \A i, j \in 1..Len(log) :
        (IsPatch(log[i]) /\ IsPatch(log[j]) /\ log[i].ev = log[j].ev) => i = j

\* C6: when the comparison of an event whose Event ID is in the database finds
\* a stored date/time that differs from the fetched start time, the run issues
\* one patch request for that event and no second one; the request carries the
\* date/time property alone, and the page keeps every other property; no step
\* of any run removes a page.
C6_PatchOnlyDate ==
    /\ [][DifferingIsPatched /\ PatchSendsDateOnly /\ OnlyDateChanges]_vars
    /\ [] AtMostOnePatchPerEvent

\* a page that was worked on has just been patched
C6_Witness ==
    /\ log # <<>>
    /\ IsPatch(Last(log)) /\ Last(log).res = "ok"
    /\ \E i \in 1..Len(db) :
          /\ db[i].properties[PSummary] = "Call notes"
          /\ db[i].properties[PDate].sep = " "
          /\ db[i].properties[PEventID] = eventData[Last(log).ev].id

-----------------------------------------------------------------------------
(* C7 *)

NoWrites == \A k \in 1..Len(log) : ~IsWrite(log[k])

\* events of the calendar that share an Event ID share the start time
OneTimePerEventID ==
    \A i, j \in 1..Len(calendar) :
        calendar[i].external_id = calendar[j].external_id
            => calendar[i].start_time = calendar[j].start_time

\* C7 as stated: a run of import_events that follows a run of import_events
\* which fetched the same events and users and whose requests to Notion all
\* succeeded, issues no create and no patch request.
C7_RerunIssuesNoWrite ==
    (prevClean /\ prog = "import_events") => NoWrites

\* C7 as amended: the same, for event sequences in which events that share an
\* Event ID share the start time.
C7_RerunIssuesNoWriteOneTimePerID ==
    (prevClean /\ prog = "import_events" /\ OneTimePerEventID) => NoWrites

\* the second run has gone through two events, one whose page the first run
\* created and one whose page it patched
C7_Witness ==
    /\ prevClean /\ prog = "import_events" /\ OneTimePerEventID
    /\ pc = "done"
    /\ Len(eventData) = 2
    /\ \E i \in 1..Len(db) : db[i].properties[PSummary] = "Please Update"
    /\ \E i \in 1..Len(db) : db[i].properties[PDate].sep = " "
    /\ \E k \in 1..Len(log) : log[k].by = "doesEventNeedUpdating" /\ log[k].ev = 2

-----------------------------------------------------------------------------
(* C8 *)

IsLookupOrPatch(r) ==
    r.by \in {"isEventPresentInDB", "doesEventNeedUpdating", "updateStartTime"}

\* C8 as stated: a failed existence query, comparison query or patch request
\* is the last request of the run, which an exception has ended.
C8_FailureAborts ==
    \A k \in 1..Len(log) :
        (IsLookupOrPatch(log[k]) /\ log[k].res # "ok")
            => (k = Len(log) /\ pc = "raised")

\* C8 as amended: the same, except for an HTTP error answer to the patch
\* request, which raises nothing: the loop goes on.
C8_FailureAbortsButPatchStatus ==
    \A k \in 1..Len(log) :
        (IsLookupOrPatch(log[k]) /\ log[k].res # "ok")
            => IF IsPatch(log[k]) /\ log[k].res = "http"
               THEN k = Len(log) => pc \in {"createNotionDatabasePages", "done"}
               ELSE k = Len(log) /\ pc = "raised"

\* the patch of the first event was answered with an error status, the loop
\* went on, and a failed query of the second event has ended the run
C8_Witness ==
    /\ pc = "raised"
    /\ Len(eventData) = 2
    /\ Last(log).ev = 2
    /\ Last(log).by \in {"isEventPresentInDB", "doesEventNeedUpdating"}
    /\ Last(log).res = "http"
    /\ \E k \in 1..Len(log) :
          IsPatch(log[k]) /\ log[k].ev = 1 /\ log[k].res = "http"

-----------------------------------------------------------------------------
(* C9 *)

\* the last answer of Calendly is a failure of the event-list request (the
\* answer of an invitee request comes with an event appended to eventsInfo)
EventListFailed == response.status \in {"transport", "http"} /\ eventData = <<>>

\* C9: after a failed event-list request no exception is raised, eventsInfo
\* is empty and the run is at its normal end, whatever the user mapping; no
\* invitee request has followed and no query, create or patch request was sent.
C9_EventListFailureEndsRun ==
    EventListFailed
        => /\ pc = "done"
           /\ exc = "none"
           /\ \A k \in 1..Len(log) : log[k].by = "getUsers"

\* import_events with a loaded user mapping and a failed event-list request
C9_Witness ==
    /\ prog = "import_events"
    /\ DOMAIN userList # {}
    /\ calendar # <<>>
    /\ EventListFailed
    /\ response.status = "transport"
    /\ pc = "done"

-----------------------------------------------------------------------------
(* C10 *)

\* C10 as stated: after a failed user-listing request the run has not been
\* aborted and the mapping is empty.
C10_UserListFailureDegrades ==
    (log # <<>> /\ log[1].by = "getUsers" /\ log[1].res # "ok")
        => (pc # "raised" /\ userList = EmptyDict)

\* C10 as amended: a failed user-listing request raises an exception that
\* nothing catches; it is the only request of the run.
C10_UserListFailureAborts ==
    (log # <<>> /\ log[1].by = "getUsers" /\ log[1].res # "ok")
        => (pc = "raised" /\ exc \in {"ConnectionError", "KeyError"} /\ Len(log) = 1)

\* the user-listing request has answered with an error status
C10_Witness ==
    /\ log # <<>>
    /\ log[1].by = "getUsers"
    /\ log[1].res = "http"
    /\ calendar # <<>>

-----------------------------------------------------------------------------
(* C11 *)

\* the request body has a Person(s) property
HasPersonLink(json) == PPersons \in DOMAIN json.properties

\* C11: the body of every create request either has no Person(s) property,
\* when the host email of its event is not in the user mapping, or names
\* exactly the user the mapping gives for the host email of that event; the
\* userID left over from an earlier event of the run is in no request body.
C11_PersonLinkIsOwnHostOrOmitted ==
    \A k \in 1..Len(log) :
        IsCreate(log[k]) =>
            LET email == eventData[log[k].ev].email
            IN IF email \in DOMAIN userList
               THEN /\ HasPersonLink(log[k].json)
                    /\ log[k].json.properties[PPersons] = <<userList[email]>>
               ELSE ~HasPersonLink(log[k].json)

\* a create request was sent for an event whose host is not in the mapping,
\* while userID held the user found for an earlier event of the run
C11_Witness ==
    /\ log # <<>>
    /\ IsCreate(Last(log))
    /\ Last(log).ev > 1
    /\ eventData[Last(log).ev].email \notin DOMAIN userList
    /\ \E j \in 1..(Last(log).ev - 1) :
          /\ eventData[j].email \in DOMAIN userList
          /\ userID = userList[eventData[j].email]
    /\ ~HasPersonLink(Last(log).json)

====
